---- MODULE Spec2Model ----
(***************************************************************************)
(* Model of src/blocks.rs: the block grid generator (generate_chunk) and   *)
(* the per-frame hover highlighter (highlight_hovered_block) running on    *)
(* an entity-component world with deferred commands.                       *)
(*                                                                         *)
(* f32 values are modelled as exact rationals extended with the IEEE       *)
(* specials the slab test can produce (+inf, -inf, NaN, -0.0) and with     *)
(* f32::MAX.  Every value the model feeds to the arithmetic is exactly     *)
(* representable in f32 except the components of the one diagonal ray      *)
(* direction (3/5, 0, 4/5), for which the model is the real-arithmetic     *)
(* idealisation.                                                           *)
(***************************************************************************)
EXTENDS Integers, Sequences, FiniteSets, TLC

VARIABLES
    settings,   \* Res<Settings>: [block_size, chunk_size]
    world,      \* entity id -> components [Block, translation, material, BlockHighlight]
    queue,      \* Commands queued by the system that ran last, not yet applied
    order,      \* the order in which blocks.iter() yielded the blocks in the run whose commands are queued
    scene,      \* what the camera/window queries and viewport_to_world yield
    pc,         \* position in the schedule
    prev,       \* history: the world when the latest run started, <<>> once the host changed anything
    runs        \* history: completed runs since the host last changed anything (0, 1, 2 = two or more)

vars == <<settings, world, queue, order, scene, pc, prev, runs>>

-----------------------------------------------------------------------------
(* Bounds of the model *)

\* largest world.chunk_size explored
MaxChunk == 2
\* most entities that carry BlockHighlight when the host adds another mark
MaxMarks == 2

-----------------------------------------------------------------------------
(* f32 arithmetic *)

Abs(i) == IF i < 0 THEN -i ELSE i

Sgn(i) == IF i < 0 THEN -1 ELSE 1

RECURSIVE Gcd(_, _)
Gcd(a, b) == IF b = 0 THEN a ELSE Gcd(b, a % b)

\* the finite value n/d (d > 0), in lowest terms
Fin(n, d) == LET g == Gcd(Abs(n), d)
             IN  [k |-> "fin", n |-> n \div g, d |-> d \div g]

NegZero == [k |-> "negzero", n |-> 0, d |-> 1]
PInf    == [k |-> "pinf", n |-> 0, d |-> 1]
NInf    == [k |-> "ninf", n |-> 0, d |-> 1]
NaN     == [k |-> "nan", n |-> 0, d |-> 1]
F32_MAX == [k |-> "max", n |-> 0, d |-> 1]
Zero    == Fin(0, 1)

IsNaN(a) == a.k = "nan"

IsZero(a) == a.k = "negzero" \/ (a.k = "fin" /\ a.n = 0)

\* sign bit as +1 / -1 (of a value that is not NaN)
SignOf(a) == IF a.k \in {"negzero", "ninf"} THEN -1
             ELSE IF a.k = "fin" THEN Sgn(a.n) ELSE 1

Rank(a) == CASE a.k = "ninf" -> 0
             [] a.k = "max"  -> 2
             [] a.k = "pinf" -> 3
             [] OTHER        -> 1

\* a < b; FALSE when either is NaN
FLt(a, b) == /\ ~IsNaN(a)
             /\ ~IsNaN(b)
             /\ \/ Rank(a) < Rank(b)
                \/ Rank(a) = 1 /\ Rank(b) = 1 /\ a.n * b.d < b.n * a.d

FGt(a, b) == FLt(b, a)

\* f32::min: a NaN argument is ignored, the other one is returned
FMin(a, b) == IF IsNaN(a) THEN b
              ELSE IF IsNaN(b) THEN a
              ELSE IF FLt(b, a) THEN b ELSE a

\* f32::max: a NaN argument is ignored, the other one is returned
FMax(a, b) == IF IsNaN(a) THEN b
              ELSE IF IsNaN(b) THEN a
              ELSE IF FLt(a, b) THEN b ELSE a

\* a + b and a - b of finite values
FAdd(a, b) == Fin(a.n * b.d + b.n * a.d, a.d * b.d)

FSub(a, b) == Fin(a.n * b.d - b.n * a.d, a.d * b.d)

\* a * b of finite values; a zero product keeps the sign of the operands
FMul(a, b) == IF IsZero(a) \/ IsZero(b)
              THEN IF SignOf(a) * SignOf(b) < 0 THEN NegZero ELSE Zero
              ELSE Fin(a.n * b.n, a.d * b.d)

\* a / b of finite values: x/0 is +-inf by the signs, 0/0 is NaN
FDiv(a, b) == IF IsZero(b)
              THEN IF IsZero(a) THEN NaN
                   ELSE IF SignOf(a) * SignOf(b) > 0 THEN PInf ELSE NInf
              ELSE IF IsZero(a)
                   THEN IF SignOf(a) * SignOf(b) < 0 THEN NegZero ELSE Zero
                   ELSE Fin(a.n * b.d * Sgn(b.n), a.d * Abs(b.n))

ISqrt(n) == CHOOSE r \in 0..n : r * r <= n /\ (r + 1) * (r + 1) > n

FSqrt(a) == Fin(ISqrt(a.n), ISqrt(a.d))

\* Vec3::normalize: v * (1 / |v|)
Normalize(v) ==
    LET sq(c) == IF IsZero(c) THEN Zero ELSE FMul(c, c)
        len   == FSqrt(FAdd(FAdd(sq(v[1]), sq(v[2])), sq(v[3])))
        recip == FDiv(Fin(1, 1), len)
    IN  <<FMul(v[1], recip), FMul(v[2], recip), FMul(v[3], recip)>>

-----------------------------------------------------------------------------
(* Resources and inputs *)

\* Res<BlockMaterials>, as set up by setup_block_materials
block_materials == [normal |-> "normal", highlighted |-> "highlighted"]

\* world.block_size values explored (all > 0): 0.5, 1.0, 2.0
BlockSizes == {Fin(1, 2), Fin(1, 1), Fin(2, 1)}

Vec(x, y, z) == <<x, y, z>>

Ray(o, d) == [origin |-> o, direction |-> d]

\* viewport_to_world returned Err
UnprojectErr == [origin |-> <<>>, direction |-> <<>>]

AlongZ  == Vec(Zero, Zero, Fin(1, 1))

\* rays viewport_to_world may return (direction is a unit Dir3)
Rays == {
    Ray(Vec(Fin(0, 1), Zero, Fin(-3, 1)),  AlongZ),
    Ray(Vec(Fin(0, 1), Zero, Fin(-10, 1)), AlongZ),
    Ray(Vec(Fin(1, 4), Zero, Fin(-3, 1)),  AlongZ),
    Ray(Vec(Fin(1, 2), Zero, Fin(-3, 1)),  AlongZ),
    Ray(Vec(Fin(0, 1), Zero, Fin(1, 1)),   AlongZ),
    Ray(Vec(Fin(0, 1), Zero, Fin(3, 1)),   Vec(NegZero, Zero, Fin(-1, 1))),
    Ray(Vec(Fin(0, 1), Fin(3, 1), Zero),   Vec(Zero, Fin(-1, 1), Zero)),
    Ray(Vec(Fin(-3, 2), Zero, Fin(-2, 1)), Vec(Fin(3, 5), Zero, Fin(4, 5)))
}

SomeRay == Ray(Vec(Fin(0, 1), Zero, Fin(-3, 1)), AlongZ)

\* number of Camera3d entities, number of windows, result of viewport_to_world
Scenes ==
    {[cameras |-> c, windows |-> 1, ray |-> SomeRay] : c \in {0, 2}}
    \cup {[cameras |-> 1, windows |-> w, ray |-> SomeRay] : w \in {0, 2}}
    \cup {[cameras |-> 1, windows |-> 1, ray |-> r] : r \in Rays \cup {UnprojectErr}}

-----------------------------------------------------------------------------
(* The entity world and its deferred commands *)

Entities(w) == DOMAIN w

\* the entities Query<.., With<Block>> matches
Blocks(w) == {e \in DOMAIN w : w[e].Block}

\* the entities Query<Entity, With<BlockHighlight>> matches
Highlighted(w) == {e \in DOMAIN w : w[e].BlockHighlight}

NoBundle == [Block |-> FALSE, translation |-> <<>>, material |-> "none"]

Spawn(b)  == [op |-> "spawn",  entity |-> 0, bundle |-> b]
Remove(e) == [op |-> "remove", entity |-> e, bundle |-> NoBundle]
Insert(e) == [op |-> "insert", entity |-> e, bundle |-> NoBundle]

ApplyCommand(w, c) ==
    CASE c.op = "spawn"  ->
            Append(w, [Block |-> c.bundle.Block,
                       translation |-> c.bundle.translation,
                       material |-> c.bundle.material,
                       BlockHighlight |-> FALSE])
      [] c.op = "remove" -> [w EXCEPT ![c.entity].BlockHighlight = FALSE]
      [] c.op = "insert" -> [w EXCEPT ![c.entity].BlockHighlight = TRUE]

RECURSIVE ApplyCommands(_, _)
ApplyCommands(w, q) ==
    IF q = <<>> THEN w
    ELSE ApplyCommands(ApplyCommand(w, Head(q)), Tail(q))

RECURSIVE Ascending(_)
Ascending(S) ==
    IF S = {} THEN <<>>
    ELSE LET m == CHOOSE x \in S : \A y \in S : x <= y
         IN  <<m>> \o Ascending(S \ {m})

Reverse(s) == [i \in 1..Len(s) |-> s[Len(s) + 1 - i]]

\* orders in which the Block query may yield its entities: the engine does
\* not fix the order, and moves an entity within it when a component is
\* inserted or removed
IterationOrders(w) == {Ascending(Blocks(w)), Reverse(Ascending(Blocks(w)))}

-----------------------------------------------------------------------------
(* generate_chunk *)

\* variant of BlockBundle: the z coordinate computed from x
BlockBundle_XForZ(x, z, block_size) ==
    [Block |-> TRUE,
     translation |-> Vec(FMul(Fin(x, 1), block_size), Zero,
                         FMul(Fin(x, 1), block_size)),
     material |-> block_materials.normal]

\* the bundle spawned for grid cell (x, z)
BlockBundle(x, z, block_size) ==
    [Block |-> TRUE,
     translation |-> Vec(FMul(Fin(x, 1), block_size), Zero,
                         FMul(Fin(z, 1), block_size)),
     material |-> block_materials.normal]

\* the spawn commands of the nested loops: z outer, x inner
SpawnCommands(block_size, chunk_size) ==
    [i \in 1..(chunk_size * chunk_size) |->
        Spawn(BlockBundle((i - 1) % chunk_size, (i - 1) \div chunk_size,
                          block_size))]

GenerateChunk ==
    /\ pc = "Startup"
    /\ queue' = SpawnCommands(settings.block_size, settings.chunk_size)
    /\ pc' = "StartupFlush"
    /\ UNCHANGED <<settings, world, order, scene, prev, runs>>

-----------------------------------------------------------------------------
(* highlight_hovered_block *)

max_distance == Fin(5, 1)

\* block_size / 2.0 with the fixed block_size = 1.0 of the hit test
HalfBlock == FDiv(Fin(1, 1), Fin(2, 1))

\* variant of Slab: an axis with a zero direction component is skipped
Slab_SkipZeroAxis(block_pos, origin, ray_direction, axis) ==
    LET min == FSub(block_pos[axis], HalfBlock)
        max == FAdd(block_pos[axis], HalfBlock)
        tA  == FDiv(FSub(min, origin[axis]), ray_direction[axis])
        tB  == FDiv(FSub(max, origin[axis]), ray_direction[axis])
    IN  IF IsZero(ray_direction[axis]) THEN <<NInf, PInf>>
        ELSE <<FMin(tA, tB), FMax(tA, tB)>>

\* <<min(tA, tB), max(tA, tB)>> of one axis of the slab test
Slab(block_pos, origin, ray_direction, axis) ==
    LET min == FSub(block_pos[axis], HalfBlock)
        max == FAdd(block_pos[axis], HalfBlock)
        tA  == FDiv(FSub(min, origin[axis]), ray_direction[axis])
        tB  == FDiv(FSub(max, origin[axis]), ray_direction[axis])
    IN  <<FMin(tA, tB), FMax(tA, tB)>>

\* the slabs of the three axes
Slabs(block_pos, origin, ray_direction) ==
    <<Slab(block_pos, origin, ray_direction, 1),
      Slab(block_pos, origin, ray_direction, 2),
      Slab(block_pos, origin, ray_direction, 3)>>

TMin(slabs) == FMax(FMax(slabs[1][1], slabs[2][1]), slabs[3][1])

TMax(slabs) == FMin(FMin(slabs[1][2], slabs[2][2]), slabs[3][2])

\* variant of Closer: no pick range
Closer_NoMaxDistance(tmin, tmax, closest_distance) ==
    /\ ~FLt(tmax, Zero)
    /\ ~FGt(tmin, tmax)
    /\ FGt(tmin, Zero)
    /\ FLt(tmin, closest_distance)

\* variant of Closer: a block at the same distance replaces the candidate
Closer_NonStrict(tmin, tmax, closest_distance) ==
    /\ ~FLt(tmax, Zero)
    /\ ~FGt(tmin, tmax)
    /\ FGt(tmin, Zero)
    /\ FLt(tmin, max_distance)
    /\ ~IsNaN(tmin) /\ ~FGt(tmin, closest_distance)

\* whether the loop body replaces the current candidate by this block
Closer(tmin, tmax, closest_distance) ==
    /\ ~FLt(tmax, Zero)
    /\ ~FGt(tmin, tmax)
    /\ FGt(tmin, Zero)
    /\ FLt(tmin, max_distance)
    /\ FLt(tmin, closest_distance)

\* the loop over blocks.iter(); 0 stands for None
RECURSIVE ClosestBlock(_, _, _, _, _, _)
ClosestBlock(w, origin, dir, ord, closest_block, closest_distance) ==
    IF ord = <<>> THEN closest_block
    ELSE LET entity == Head(ord)
             slabs  == Slabs(w[entity].translation, origin, dir)
             tmin   == TMin(slabs)
             tmax   == TMax(slabs)
         IN  IF Closer(tmin, tmax, closest_distance)
             THEN ClosestBlock(w, origin, dir, Tail(ord), entity, tmin)
             ELSE ClosestBlock(w, origin, dir, Tail(ord), closest_block,
                               closest_distance)

\* variant of ClearMaterials: the highlighted handle is written
ClearMaterials_WrongHandle(w) ==
    [e \in DOMAIN w |->
        IF w[e].BlockHighlight /\ w[e].Block
        THEN [w[e] EXCEPT !.material = block_materials.highlighted]
        ELSE w[e]]

\* variant of ClearMaterials: the material is reset without the Block lookup
ClearMaterials_AnyEntity(w) ==
    [e \in DOMAIN w |->
        IF w[e].BlockHighlight
        THEN [w[e] EXCEPT !.material = block_materials.normal]
        ELSE w[e]]

\* "Remove previous highlight": the material writes of the first loop
ClearMaterials(w) ==
    [e \in DOMAIN w |->
        IF w[e].BlockHighlight /\ w[e].Block
        THEN [w[e] EXCEPT !.material = block_materials.normal]
        ELSE w[e]]

\* variant of ClearCommands: the mark is removed only where the Block lookup succeeds
ClearCommands_BlocksOnly(w) ==
    LET marked == Ascending(Highlighted(w) \cap Blocks(w))
    IN  [i \in 1..Len(marked) |-> Remove(marked[i])]

\* "Remove previous highlight": the commands of the first loop
ClearCommands(w) ==
    LET marked == Ascending(Highlighted(w))
    IN  [i \in 1..Len(marked) |-> Remove(marked[i])]

\* variant of RayResolved: the camera query result is not checked
RayResolved_NoCameraCheck(sc) == sc.windows = 1 /\ sc.ray # UnprojectErr

\* camera_query.get_single(), windows.get_single() and viewport_to_world all Ok
RayResolved(sc) == sc.cameras = 1 /\ sc.windows = 1 /\ sc.ray # UnprojectErr

\* the block the run picks, 0 when it returns early or nothing is hit
Picked(w, sc, ord) ==
    IF RayResolved(sc)
    THEN ClosestBlock(w, sc.ray.origin, Normalize(sc.ray.direction), ord,
                      0, F32_MAX)
    ELSE 0

\* "Highlight the closest block": the material write
HighlightMaterial(w, entity) ==
    IF entity # 0 /\ entity \in Blocks(w)
    THEN [w EXCEPT ![entity].material = block_materials.highlighted]
    ELSE w

\* variant of HighlightCommands: the mark is not inserted
HighlightCommands_None(entity) == <<>>

\* "Highlight the closest block": the command
HighlightCommands(entity) == IF entity # 0 THEN <<Insert(entity)>> ELSE <<>>

HighlightHoveredBlock ==
    /\ pc = "Update"
    /\ \E ord \in IterationOrders(world) :
          LET entity == Picked(world, scene, ord)
          IN  /\ order' = ord
              /\ world' = HighlightMaterial(ClearMaterials(world), entity)
              /\ queue' = ClearCommands(world) \o HighlightCommands(entity)
    /\ pc' = "UpdateFlush"
    /\ prev' = world
    /\ UNCHANGED <<settings, scene, runs>>

-----------------------------------------------------------------------------
(* The schedule and the host *)

\* the queued commands are applied before the next system runs
ApplyDeferred ==
    /\ pc \in {"StartupFlush", "UpdateFlush"}
    /\ world' = ApplyCommands(world, queue)
    /\ queue' = <<>>
    /\ order' = <<>>
    /\ runs' = IF pc = "UpdateFlush" /\ runs < 2 THEN runs + 1 ELSE runs
    /\ pc' = "Update"
    /\ UNCHANGED <<settings, scene, prev>>

\* between frames the camera, the window or the view changes
HostScene ==
    /\ pc = "Update"
    /\ scene' \in Scenes \ {scene}
    /\ prev' = <<>>
    /\ runs' = 0
    /\ UNCHANGED <<settings, world, queue, order, pc>>

\* between frames another system marks an entity with BlockHighlight
HostInsertHighlight ==
    /\ pc = "Update"
    /\ Cardinality(Highlighted(world)) < MaxMarks
    /\ \E e \in Entities(world) \ Highlighted(world) :
          world' = [world EXCEPT ![e].BlockHighlight = TRUE]
    /\ prev' = <<>>
    /\ runs' = 0
    /\ UNCHANGED <<settings, queue, order, scene, pc>>

\* an entity of the scene that is not a block
OtherEntity ==
    [Block |-> FALSE, translation |-> Vec(Zero, Zero, Zero),
     material |-> "other", BlockHighlight |-> FALSE]

Init ==
    /\ settings \in [block_size : BlockSizes, chunk_size : 0..MaxChunk]
    /\ world = <<OtherEntity>>
    /\ queue = <<>>
    /\ order = <<>>
    /\ scene \in Scenes
    /\ pc = "Startup"
    /\ prev = <<>>
    /\ runs = 0

\* the program alone: generation, then frames under changing views
NextGen ==
    \/ GenerateChunk
    \/ ApplyDeferred
    \/ HighlightHoveredBlock
    \/ HostScene

SpecGen == Init /\ [][NextGen]_vars

\* the program in a world other systems also write to
Next ==
    \/ GenerateChunk
    \/ ApplyDeferred
    \/ HighlightHoveredBlock
    \/ HostScene
    \/ HostInsertHighlight

Spec == Init /\ [][Next]_vars

-----------------------------------------------------------------------------
(* Vocabulary of the properties *)

Normal      == block_materials.normal
HighlightedMaterial == block_materials.highlighted

\* a <= b and a = b on f32; FALSE when either is NaN
FLe(a, b) == ~IsNaN(a) /\ ~IsNaN(b) /\ ~FLt(b, a)

FEq(a, b) == FLe(a, b) /\ FLe(b, a)

\* the system has run and its commands are still queued
SystemRan == pc = "UpdateFlush"

\* a run and the application of its commands have just completed
RunCompleted == pc = "Update" /\ runs >= 1

\* the entity the run marks: the target of its insert command
Chosen == {queue[i].entity : i \in {j \in DOMAIN queue : queue[j].op = "insert"}}

\* slab distances of every block along the ray of the current scene:
\* t[e] = <<t_entry, t_exit>>
RayDirection == Normalize(scene.ray.direction)

SlabDistances ==
    LET dir == RayDirection
    IN  [e \in Blocks(world) |->
            LET slabs == Slabs(world[e].translation, scene.ray.origin, dir)
            IN  <<TMin(slabs), TMax(slabs)>>]

\* the blocks the hit test may choose, given the slab distances t
Candidates(t) ==
    {e \in DOMAIN t :
        /\ FLe(t[e][1], t[e][2])
        /\ FLe(Zero, t[e][2])
        /\ FLt(Zero, t[e][1])
        /\ FLt(t[e][1], max_distance)}

\* the candidates with the least t_entry
Nearest(t) ==
    LET cand == Candidates(t)
    IN  {e \in cand : \A b \in cand : FLe(t[e][1], t[b][1])}

\* the element of S that the iteration order yields first
FirstOf(ord, S) ==
    ord[CHOOSE i \in DOMAIN ord :
            ord[i] \in S /\ \A j \in 1..(i - 1) : ord[j] \notin S]

AtOrigin(e) == world[e].translation = Vec(Zero, Zero, Zero)

RayFromMinus3  == Ray(Vec(Zero, Zero, Fin(-3, 1)), AlongZ)
RayFromMinus10 == Ray(Vec(Zero, Zero, Fin(-10, 1)), AlongZ)

\* on a zero-direction axis the ray origin lies on a face plane of e's box
OnFacePlane(e) ==
    \E a \in 1..3 :
        /\ IsZero(RayDirection[a])
        /\ \/ scene.ray.origin[a] = FSub(world[e].translation[a], Fin(1, 2))
           \/ scene.ray.origin[a] = FAdd(world[e].translation[a], Fin(1, 2))

\* on a zero-direction axis the ray origin lies outside e's box
OutsideOnZeroAxis(e) ==
    \E a \in 1..3 :
        /\ IsZero(RayDirection[a])
        /\ \/ FLt(scene.ray.origin[a], FSub(world[e].translation[a], Fin(1, 2)))
           \/ FGt(scene.ray.origin[a], FAdd(world[e].translation[a], Fin(1, 2)))

\* the blocks whose material differs before and after the run
Changed == {e \in Blocks(world) : world[e].material # prev[e].material}

-----------------------------------------------------------------------------
(* Properties *)

\* C1: after a completed run of highlight_hovered_block, with its commands
\* applied, at most one entity carries BlockHighlight, whatever the state
\* before the run was.
AtMostOneHighlight ==
    RunCompleted => Cardinality(Highlighted(world)) <= 1

\* several entities carried the mark before the run and one of them was hit again
SeveralMarksOneHitAgain ==
    /\ RunCompleted
    /\ Cardinality(Highlighted(prev)) >= 2
    /\ Highlighted(prev) \cap Highlighted(world) # {}

\* the grid position of cell (x, z)
GridPosition(x, z) ==
    Vec(Fin(x * settings.block_size.n, settings.block_size.d), Zero,
        Fin(z * settings.block_size.n, settings.block_size.d))

\* C2: generate_chunk creates exactly chunk_size * chunk_size Block entities,
\* one at (x*block_size, 0, z*block_size) for every 0 <= x, z < chunk_size,
\* each with the normal material and without the mark; none for chunk_size 0.
ChunkGenerated ==
    [][pc = "StartupFlush" =>
        LET cs      == settings.chunk_size
            spawned == Entities(world') \ Entities(world)
        IN  /\ Cardinality(spawned) = cs * cs
            /\ \A e \in spawned :
                  /\ world'[e].Block
                  /\ world'[e].material = Normal
                  /\ ~world'[e].BlockHighlight
            /\ \A x, z \in 0..(cs - 1) :
                  Cardinality({e \in spawned :
                      world'[e].translation = GridPosition(x, z)}) = 1
            /\ \A e \in Entities(world) : world'[e] = world[e]]_vars

\* a grid of at least 2 x 2 blocks has been generated
GridOfFourGenerated ==
    /\ pc = "Update"
    /\ settings.chunk_size >= 2
    /\ Cardinality(Blocks(world)) = settings.chunk_size * settings.chunk_size

\* C3 as stated: with no camera in the scene a run leaves the material of
\* every block as it was before the run and removes every mark.
NoCameraLeavesMaterials ==
    (RunCompleted /\ scene.cameras = 0) =>
        /\ \A e \in Blocks(world) : world[e].material = prev[e].material
        /\ Highlighted(world) = {}

\* C3 amended: with no camera in the scene a run leaves the material of every
\* block that did not carry the mark as it was, resets the material of every
\* block that carried the mark to normal, and removes every mark.
NoCameraClearsOnly ==
    (RunCompleted /\ scene.cameras = 0) =>
        /\ \A e \in Blocks(world) :
              world[e].material =
                  IF prev[e].BlockHighlight THEN Normal ELSE prev[e].material
        /\ Highlighted(world) = {}

\* a marked block showing the highlighted material went through a run without camera
NoCameraWithMarkedBlock ==
    /\ RunCompleted
    /\ scene.cameras = 0
    /\ \E e \in Blocks(prev) :
          prev[e].BlockHighlight /\ prev[e].material = HighlightedMaterial

\* C4 as stated: a run changes the material of at most one block.
AtMostOneMaterialChange ==
    RunCompleted => Cardinality(Changed) <= 1

\* C4 amended: a run changes the material of at most one block to highlighted;
\* every other block whose material differs carried the mark before the run
\* and now has the normal material.
AtMostOneNewHighlight ==
    RunCompleted =>
        /\ Cardinality({e \in Changed :
              world[e].material = HighlightedMaterial}) <= 1
        /\ \A e \in Changed :
              world[e].material # HighlightedMaterial =>
                  prev[e].BlockHighlight /\ world[e].material = Normal

\* the highlight moved from a marked block to another block
HighlightMoved ==
    /\ RunCompleted
    /\ \E e1, e2 \in Blocks(world) :
          /\ e1 # e2
          /\ prev[e1].BlockHighlight
          /\ prev[e1].material = HighlightedMaterial
          /\ world[e1].material = Normal
          /\ prev[e2].material = Normal
          /\ world[e2].material = HighlightedMaterial

\* C5: a second run with the same camera, window and block positions leaves
\* the marked entities and every material as the first run left them.
IdempotentRun ==
    (pc = "Update" /\ runs >= 2) => world = prev

\* C6: the block the run chooses is selectable (t_entry <= t_exit,
\* t_exit >= 0, 0 < t_entry < 5.0, box of size 1.0) with the least t_entry of
\* all selectable blocks; one is chosen iff one is selectable; the ray from
\* (0,0,-3) along z meets the block at the origin at 2.5 and chooses it, the
\* ray from (0,0,-10) meets it at 9.5 and does not.
NearestHitSelected ==
    (SystemRan /\ RayResolved(scene)) =>
        LET t       == SlabDistances
            nearest == Nearest(t)
        IN  /\ nearest = {} => Chosen = {}
            /\ nearest # {} =>
                  \E e \in nearest :
                      Chosen = {e} /\ world[e].material = HighlightedMaterial
            /\ \A e \in Chosen : ~FLt(t[e][2], Zero) /\ FGt(t[e][1], Zero)
            /\ \A e \in Blocks(world) :
                  AtOrigin(e) =>
                      /\ scene.ray = RayFromMinus3 =>
                            FEq(t[e][1], Fin(5, 2)) /\ Chosen = {e}
                      /\ scene.ray = RayFromMinus10 =>
                            FEq(t[e][1], Fin(19, 2)) /\ e \notin Chosen

\* two selectable blocks at different distances, the nearer one chosen
NearerOfTwoChosen ==
    /\ SystemRan
    /\ RayResolved(scene)
    /\ Chosen # {}
    /\ LET t == SlabDistances
       IN  \E b \in Candidates(t) : \A e \in Chosen : FLt(t[e][1], t[b][1])

\* C7: of several selectable blocks with the same least t_entry exactly one
\* is chosen, the one the block iteration order yields first.
TieBrokenByIterationOrder ==
    (SystemRan /\ RayResolved(scene)) =>
        LET nearest == Nearest(SlabDistances)
        IN  nearest # {} => Chosen = {FirstOf(order, nearest)}

\* two blocks tie on the least t_entry and the later-spawned one is chosen
TieOnLeastEntry ==
    /\ SystemRan
    /\ RayResolved(scene)
    /\ LET nearest == Nearest(SlabDistances)
       IN  /\ Cardinality(nearest) >= 2
           /\ \E e \in Chosen : \E b \in nearest : b < e

\* C8: a block whose slab computation meets a zero direction component with
\* the ray origin on one of its face planes (NaN) or outside its extent on
\* that axis is not chosen.
DegenerateAxisNotChosen ==
    (SystemRan /\ RayResolved(scene)) =>
        \A e \in Chosen : ~OnFacePlane(e) /\ ~OutsideOnZeroAxis(e)

\* a block with a NaN slab distance is passed over and another block is chosen
NaNBlockPassedOver ==
    /\ SystemRan
    /\ RayResolved(scene)
    /\ Chosen # {}
    /\ \E e \in Blocks(world) :
          OnFacePlane(e) /\ FLt(SlabDistances[e][1], max_distance)

\* C9: the first loop queues the removal of the mark of every entity that
\* carries it, Block or not, ahead of any insert; it resets the material of
\* the marked Blocks only, leaves the material of every other entity alone,
\* and does so whether or not camera, window and ray resolve.
ClearPhaseEffect ==
    SystemRan =>
        /\ \A e \in Highlighted(prev) :
              \E i \in DOMAIN queue :
                  /\ queue[i] = Remove(e)
                  /\ \A j \in 1..i : queue[j].op = "remove"
        /\ \A i \in DOMAIN queue :
              queue[i].op = "remove" => queue[i].entity \in Highlighted(prev)
        /\ ~RayResolved(scene) => Chosen = {}
        /\ \A e \in Entities(prev) \ Chosen :
              world[e].material =
                  IF e \in Highlighted(prev) /\ e \in Blocks(prev)
                  THEN Normal ELSE prev[e].material

\* a marked non-Block and a marked Block showing the highlighted material are
\* cleared by a run that returns early
ClearedWithoutRay ==
    /\ SystemRan
    /\ ~RayResolved(scene)
    /\ \E e \in Highlighted(prev) : ~prev[e].Block
    /\ \E e \in Highlighted(prev) :
          prev[e].Block /\ prev[e].material = HighlightedMaterial

\* C10: from the state generate_chunk produces, after any sequence of
\* completed runs, a block has the highlighted material iff it carries the
\* mark, and every other block has the normal material.
MarkMatchesMaterial ==
    pc = "Update" =>
        \A e \in Blocks(world) :
            /\ world[e].material \in {Normal, HighlightedMaterial}
            /\ world[e].material = HighlightedMaterial <=> world[e].BlockHighlight

\* a block showing the highlight went through a run that returned early
HighlightedThenAborted ==
    /\ RunCompleted
    /\ ~RayResolved(scene)
    /\ \E e \in Blocks(prev) : prev[e].material = HighlightedMaterial
    /\ Highlighted(world) = {}

====
